---- MODULE Spec2Model ----
(***************************************************************************)
(* A model of selection/covtest.py: covtest, reduced_covtest and           *)
(* forward_step.                                                           *)
(*                                                                         *)
(* Numbers.  The code works on real arrays.  The model keeps them exact:   *)
(* a vector is a record [nan, v, q] that stands for the real vector        *)
(* v / sqrt(q), with v a sequence of integers and q a positive integer, or *)
(* (nan = TRUE) for a vector whose entries are all NaN.  A scalar is       *)
(* [nan, a, q], standing for a / sqrt(q).  Integer data have q = 1; the    *)
(* square root only appears through the division by the column standard    *)
(* deviation in forward_step.  Column indices are 1-based (the code's idx  *)
(* is the model's idx - 1).                                                *)
(***************************************************************************)
EXTENDS Integers, Sequences, FiniteSets, TLC

VARIABLES
    X,             \* the caller's design array (an object: forward_step writes to it)
    Y,             \* the caller's response array
    X0,            \* history: the value of X when the call was made
    sigma,         \* None or <<s>>
    exact,         \* the exact argument
    covArg,        \* the covariance argument: None or <<ref>>, a reference into heap
    ndraw,
    burnin,
    nstep,
    heap,          \* the covariance arrays alive, by reference
    pc,            \* position in the running function
    calls,         \* history: the completed calls of covtest / reduced_covtest
    samplerCalls,  \* history: the invocations of the Monte-Carlo primitives
    err,           \* "" or the exception that ended the call
    i,             \* forward_step: loop variable
    covtest_P,     \* forward_step: list of covtest p-values
    reduced_P,     \* forward_step: list of Monte-Carlo p-values
    FS,            \* forward_step: the stepwise selector
    loc            \* forward_step: the other locals of the current iteration

vars == <<X, Y, X0, sigma, exact, covArg, ndraw, burnin, nstep, heap, pc,
          calls, samplerCalls, err, i, covtest_P, reduced_P, FS, loc>>

(***************************************************************************)
(* Bounds of the model.                                                    *)
(***************************************************************************)
MaxP == 3
MaxSigma == 2
MaxStep == 2

(***************************************************************************)
(* The finite sets the inputs are drawn from.                              *)
(***************************************************************************)
Rows == {1, 2}
XVals == {0, 1}
YVals == {-1, 0, 1}

None == << >>

(***************************************************************************)
(* Integer helpers.                                                        *)
(***************************************************************************)
Abs(a) == IF a < 0 THEN -a ELSE a

Sgn(a) == IF a > 0 THEN 1 ELSE IF a < 0 THEN -1 ELSE 0

RECURSIVE Gcd(_, _)
Gcd(a, b) == IF b = 0 THEN Abs(a) ELSE Gcd(b, a % Abs(b))

RECURSIVE SeqSum(_)
SeqSum(s) == IF s = << >> THEN 0 ELSE s[1] + SeqSum(Tail(s))

RECURSIVE SeqGcd(_)
SeqGcd(s) == IF s = << >> THEN 0 ELSE Gcd(s[1], SeqGcd(Tail(s)))

(***************************************************************************)
(* Exact vectors and scalars.                                              *)
(***************************************************************************)
Zeros(n) == [k \in 1..n |-> 0]

NaNVec(n) == [nan |-> TRUE, v |-> Zeros(n), q |-> 1]

IntVec(s) == [nan |-> FALSE, v |-> s, q |-> 1]

NaNScalar == [nan |-> TRUE, a |-> 0, q |-> 1]

IntScalar(a) == [nan |-> FALSE, a |-> a, q |-> 1]

\* the largest h with h | g and h^2 | q
CommonFactor(g, q) ==
    IF g <= 1 THEN 1
    ELSE CHOOSE h \in 1..g :
             /\ g % h = 0 /\ q % (h * h) = 0
             /\ \A k \in (h + 1)..g : ~(g % k = 0 /\ q % (k * k) = 0)

\* the one representation of the vector v / sqrt(q)
Normal(v, q) ==
    IF \A k \in DOMAIN v : v[k] = 0 THEN IntVec(v)
    ELSE LET g == CommonFactor(SeqGcd(v), q)
         IN  [nan |-> FALSE, v |-> [k \in DOMAIN v |-> v[k] \div g], q |-> q \div (g * g)]

\* np.dot of two vectors
Dot(A, B) ==
    IF A.nan \/ B.nan THEN NaNScalar
    ELSE [nan |-> FALSE,
          a |-> SeqSum([k \in DOMAIN A.v |-> A.v[k] * B.v[k]]),
          q |-> A.q * B.q]

\* s * A for a scalar s in {-1, 0, 1, nan}
ScaleVec(s, A) ==
    IF s.nan \/ A.nan THEN NaNVec(Len(A.v))
    ELSE [nan |-> FALSE, v |-> [k \in DOMAIN A.v |-> s.a * A.v[k]], q |-> A.q]

NegVec(A) == ScaleVec(IntScalar(-1), A)

\* A - B, as the sequence of the terms whose sum it is: one term when the two
\* radicands agree (always, on integer data), else the two terms A and -B
VecSub(A, B) ==
    IF A.nan \/ B.nan THEN <<NaNVec(Len(A.v))>>
    ELSE IF A.q = B.q
         THEN <<[nan |-> FALSE, v |-> [k \in DOMAIN A.v |-> A.v[k] - B.v[k]], q |-> A.q]>>
         ELSE <<A, NegVec(B)>>

\* the terms of row . z
RowDot(row, z) == [k \in DOMAIN row |-> Dot(row[k], z)]

\* a/sqrt(q) <= c/sqrt(r)
SurdLeq(a, q, c, r) ==
    IF a <= 0 /\ c >= 0 THEN TRUE
    ELSE IF a > 0 /\ c <= 0 THEN FALSE
    ELSE IF a > 0 THEN a * a * r <= c * c * q
    ELSE a * a * r >= c * c * q

\* the sum of the terms is <= 0 (false on NaN, as every comparison with NaN)
LeqZero(terms) ==
    /\ \A k \in DOMAIN terms : ~terms[k].nan
    /\ IF Len(terms) = 1 THEN terms[1].a <= 0
       ELSE SurdLeq(terms[1].a, terms[1].q, -terms[2].a, terms[2].q)

\* the sum of the terms is < 0
LtZero(terms) ==
    /\ \A k \in DOMAIN terms : ~terms[k].nan
    /\ IF Len(terms) = 1 THEN terms[1].a < 0
       ELSE ~SurdLeq(-terms[2].a, terms[2].q, terms[1].a, terms[1].q)

(***************************************************************************)
(* covtest, lines 71-91.                                                   *)
(***************************************************************************)
\* Z = np.dot(X.T, Y)
Correlations(Xa, Ya) == [j \in DOMAIN Xa |-> Dot(Xa[j], Ya)]

\* np.fabs
Fabs(Z) == [j \in DOMAIN Z |-> [Z[j] EXCEPT !.a = Abs(Z[j].a)]]

\* numpy's order on floats: a < b, NaN after every number
NpLess(za, zb) ==
    IF za.nan THEN FALSE
    ELSE IF zb.nan THEN TRUE
    ELSE za.a * za.a * zb.q < zb.a * zb.a * za.q

\* np.argsort of at most 16 non-negative values is an insertion sort: index vi
\* moves left past every index whose value is strictly greater
RECURSIVE InsertIdx(_, _, _)
InsertIdx(order, vi, A) ==
    IF order = << >> THEN <<vi>>
    ELSE LET last == order[Len(order)]
         IN  IF NpLess(A[vi], A[last])
             THEN Append(InsertIdx(SubSeq(order, 1, Len(order) - 1), vi, A), last)
             ELSE Append(order, vi)

RECURSIVE ArgsortUpTo(_, _)
ArgsortUpTo(A, k) ==
    IF k = 0 THEN << >> ELSE InsertIdx(ArgsortUpTo(A, k - 1), k, A)

Argsort(A) == ArgsortUpTo(A, Len(A))

\* a selection rule that takes the first index of the argsort, for comparison
SelectIdxFirst(Z) == Argsort(Fabs(Z))[1]

\* idx = np.argsort(np.fabs(Z))[-1]
SelectIdx(Z) == Argsort(Fabs(Z))[Len(Z)]

\* sign = np.sign(Z[idx])
SelectSign(Z, idx) ==
    IF Z[idx].nan THEN NaNScalar ELSE IntScalar(Sgn(Z[idx].a))

\* X.T[subset], the columns other than idx in their order
RECURSIVE Others(_, _)
Others(p, idx) ==
    IF p = 0 THEN << >>
    ELSE IF p = idx THEN Others(p - 1, idx)
    ELSE Append(Others(p - 1, idx), p)

\* the stacked rows of line 80 without the shift of line 81, for comparison
SelectorNoShift(Xa, idx, sign) ==
    LET sub  == Others(Len(Xa), idx)
        pos  == [k \in DOMAIN sub |-> <<Xa[sub[k]]>>]
        neg  == [k \in DOMAIN sub |-> <<NegVec(Xa[sub[k]])>>]
    IN  pos \o neg \o << <<NegVec(ScaleVec(sign, Xa[idx]))>> >>

\* selector = np.vstack([X.T[subset], -X.T[subset], -sign*X[:,idx]])
\* selector -= (sign * X[:,idx])[None,:]
Selector(Xa, idx, sign) ==
    LET sub  == Others(Len(Xa), idx)
        sx   == ScaleVec(sign, Xa[idx])
        pos  == [k \in DOMAIN sub |-> VecSub(Xa[sub[k]], sx)]
        neg  == [k \in DOMAIN sub |-> VecSub(NegVec(Xa[sub[k]]), sx)]
    IN  pos \o neg \o <<VecSub(NegVec(sx), sx)>>

(***************************************************************************)
(* The constraint primitive (selection.affine.constraints).  A covariance  *)
(* array is an object in heap; its value is scale * base, since the code   *)
(* only ever rescales it.                                                  *)
(***************************************************************************)
Identity == [kind |-> "identity", sel |-> << >>]

CallerMatrix == [kind |-> "caller", sel |-> << >>]

\* constraints(linear_part, offset, covariance=covariance): the handle keeps the
\* array it is given, and makes an identity when it is given none
Constraints(linear_part, offset, covariance, h) ==
    IF covariance = None
    THEN [con  |-> [linear_part |-> linear_part, offset |-> offset,
                    covariance |-> Len(h) + 1],
          heap |-> Append(h, [scale |-> 1, base |-> Identity])]
    ELSE [con  |-> [linear_part |-> linear_part, offset |-> offset,
                    covariance |-> covariance[1]],
          heap |-> h]

\* con.covariance *= sigma**2, in place
ScaleCovariance(h, ref, s) == [h EXCEPT ![ref].scale = @ * s * s]

\* con.pivot(...) and the exponential approximation from con.bounds(...): the
\* value is computed by the constraint primitive, the model keeps what it is of
Pvalue(kind, con, direction, observed) ==
    [kind |-> kind, direction |-> direction, observed |-> observed]

NoCon == [linear_part |-> << >>, offset |-> << >>, covariance |-> 0]

\* covtest(X, Y, sigma, exact, covariance) on heap h: what it returns, the heap
\* it leaves, and whether it raised (sigma**2 with sigma None is a TypeError)
Covtest(Xa, Ya, sig, ex, covariance, h) ==
    LET Z    == Correlations(Xa, Ya)
        idx  == SelectIdx(Z)
        sign == SelectSign(Z, idx)
        sel  == Selector(Xa, idx, sign)
        made == Constraints(sel, Zeros(Len(sel)), covariance, h)
        eta  == ScaleVec(sign, Xa[idx])
    IN  IF sig = None
        THEN [raised |-> TRUE, con |-> NoCon, pvalue |-> Pvalue("none", NoCon, eta, Ya),
              idx |-> idx, sign |-> sign, heap |-> made.heap]
        ELSE [raised |-> FALSE,
              con    |-> made.con,
              pvalue |-> Pvalue(IF ex THEN "pivot" ELSE "exp", made.con, eta, Ya),
              idx    |-> idx,
              sign   |-> sign,
              heap   |-> ScaleCovariance(made.heap, made.con.covariance, sig[1])]

(***************************************************************************)
(* Inputs.                                                                 *)
(***************************************************************************)
Vectors(vals) == {IntVec(s) : s \in [Rows -> vals]}

Designs == UNION {[1..p -> Vectors(XVals)] : p \in 1..MaxP}

Responses == Vectors(YVals)

Perms(p) == {f \in [1..p -> 1..p] : \A a, b \in 1..p : f[a] = f[b] => a = b}

\* the design whose column j is column f[j] of Xa
Permute(Xa, f) == [j \in DOMAIN Xa |-> Xa[f[j]]]

NoLoc == [RX |-> << >>, RY |-> NaNVec(0), RXisX |-> FALSE, covariance |-> None,
          con |-> NoCon, idx |-> 0, sign |-> NaNScalar, Acon |-> NoCon]

NoFS == [advances |-> 0, variables |-> << >>, cols |-> << >>]

\* what the forward_step variables hold while forward_step is not running
ForwardIdle ==
    /\ nstep = 0 /\ i = 0 /\ covtest_P = << >> /\ reduced_P = << >>
    /\ FS = NoFS /\ loc = NoLoc

(***************************************************************************)
(* Calls of covtest.                                                       *)
(***************************************************************************)
CallRecord(tag, Xa, Ya, f, r) ==
    [tag |-> tag, X |-> Xa, Y |-> Ya, perm |-> f,
     raised |-> r.raised, con |-> r.con, pvalue |-> r.pvalue, idx |-> r.idx,
     sign |-> r.sign,
     cov_value |-> IF r.raised THEN [scale |-> 0, base |-> Identity]
                   ELSE r.heap[r.con.covariance]]

DoCall(tag, Xa, Ya, f) ==
    LET r == Covtest(Xa, Ya, sigma, exact, covArg, heap)
    IN  /\ calls' = Append(calls, CallRecord(tag, Xa, Ya, f, r))
        /\ heap' = r.heap
        /\ err' = IF r.raised THEN "TypeError" ELSE ""
        /\ pc' = IF calls = << >> THEN "called" ELSE "done"
        /\ UNCHANGED <<X, Y, X0, sigma, exact, covArg, ndraw, burnin, nstep,
                       samplerCalls, i, covtest_P, reduced_P, FS, loc>>

\* covtest(X, Y, sigma, exact, covariance)
CallCovtest ==
    /\ pc = "idle"
    /\ DoCall("first", X, Y, << >>)

\* the same call once more, with the same objects
CallCovtestAgain ==
    /\ pc = "called"
    /\ DoCall("again", X, Y, << >>)

\* covtest on the same design and another response
CallCovtestOnResponse ==
    /\ pc = "called"
    /\ \E z \in Responses : DoCall("response", X, z, << >>)

InitSelect ==
    /\ X \in Designs /\ Y \in Responses /\ X0 = X
    /\ sigma = <<1>> /\ exact = TRUE /\ covArg = None
    /\ ndraw = 5000 /\ burnin = 2000
    /\ heap = << >> /\ pc = "idle" /\ calls = << >> /\ samplerCalls = << >>
    /\ err = ""
    /\ ForwardIdle

\* the permutations of the columns that leave column idx in place
CallCovtestPermutedFixing ==
    /\ pc = "called"
    /\ \E f \in Perms(Len(X)) :
           /\ f[calls[1].idx] = calls[1].idx
           /\ DoCall("permuted", Permute(X, f), Y, f)

NextSelect == CallCovtest \/ CallCovtestPermutedFixing \/ CallCovtestOnResponse

SpecSelect == InitSelect /\ [][NextSelect]_vars

InitFrame ==
    /\ X \in Designs /\ Y \in Responses /\ X0 = X
    /\ sigma \in {<<s>> : s \in 1..MaxSigma} /\ exact \in BOOLEAN
    /\ \/ covArg = None /\ heap = << >>
       \/ covArg = <<1>> /\ heap = <<[scale |-> 1, base |-> CallerMatrix]>>
    /\ ndraw = 5000 /\ burnin = 2000
    /\ pc = "idle" /\ calls = << >> /\ samplerCalls = << >> /\ err = ""
    /\ ForwardIdle

NextFrame == CallCovtest \/ CallCovtestAgain

SpecFrame == InitFrame /\ [][NextFrame]_vars

(***************************************************************************)
(* reduced_covtest, lines 93-176.                                          *)
(***************************************************************************)
\* a default that ignores a supplied sigma, for comparison
SigmaAlwaysOne(sig) == <<1>>

\* sigma or 1
SigmaOr1(sig) == IF sig = None \/ sig = <<0>> THEN <<1>> ELSE sig

\* X[:,idx] * sign
Direction(Xa, idx, sign) == ScaleVec(sign, Xa[idx])

\* gibbs_test / simulate_from_constraints (selection.affine): the sampler runs
\* burnin + ndraw iterations, none when that is not positive, and validates
\* nothing
SamplerRun(fn, con, observed, direction, nd, bi, sigma_known) ==
    [fn |-> fn, con |-> con, observed |-> observed, direction |-> direction,
     ndraw |-> nd, burnin |-> bi, sigma_known |-> sigma_known,
     iterations |-> IF nd + bi > 0 THEN nd + bi ELSE 0]

\* cone, _, idx, sign = covtest(X, Y, sigma=sigma or 1, covariance=covariance)
ReducedCovtest ==
    /\ pc = "idle"
    /\ LET r == Covtest(X, Y, SigmaOr1(sigma), TRUE, covArg, heap)
       IN  /\ loc' = [NoLoc EXCEPT !.con = r.con, !.idx = r.idx, !.sign = r.sign]
           /\ heap' = r.heap
    /\ pc' = "gibbs"
    /\ UNCHANGED <<X, Y, X0, sigma, exact, covArg, ndraw, burnin, nstep, calls,
                   samplerCalls, err, i, covtest_P, reduced_P, FS>>

\* pvalue = gibbs_test(cone, Y, X[:,idx] * sign, ndraw=ndraw, burnin=burnin,
\*                     sigma_known=sigma is not None)
\* return cone, pvalue, idx, sign
ReducedGibbs ==
    /\ pc = "gibbs"
    /\ LET run == SamplerRun("gibbs_test", loc.con, Y, Direction(X, loc.idx, loc.sign),
                             ndraw, burnin, sigma # None)
       IN  /\ samplerCalls' = Append(samplerCalls, run)
           /\ calls' = Append(calls,
                  [tag |-> "reduced", X |-> X, Y |-> Y, perm |-> << >>,
                   raised |-> FALSE, con |-> loc.con,
                   pvalue |-> Pvalue("gibbs", loc.con, run.direction, Y),
                   idx |-> loc.idx, sign |-> loc.sign,
                   cov_value |-> heap[loc.con.covariance]])
    /\ pc' = "done"
    /\ UNCHANGED <<X, Y, X0, sigma, exact, covArg, ndraw, burnin, nstep, heap,
                   err, i, covtest_P, reduced_P, FS, loc>>

\* (ndraw, burnin): the defaults, and the values the contract excludes
DrawParams == {<<5000, 2000>>, <<0, 0>>, <<1, -1>>}

HeapAtCall == IF covArg = None THEN << >> ELSE <<[scale |-> 1, base |-> CallerMatrix]>>

InitReduced ==
    /\ X \in Designs /\ Y \in Responses /\ X0 = X
    /\ sigma \in {None} \cup {<<s>> : s \in 1..MaxSigma}
    /\ exact = TRUE
    /\ covArg \in {None, <<1>>} /\ heap = HeapAtCall
    /\ \E d \in DrawParams : ndraw = d[1] /\ burnin = d[2]
    /\ pc = "idle" /\ calls = << >> /\ samplerCalls = << >> /\ err = ""
    /\ ForwardIdle

NextReduced == ReducedCovtest \/ ReducedGibbs

SpecReduced == InitReduced /\ [][NextReduced]_vars

(***************************************************************************)
(* The stepwise selector (selection.forward_step.forward_stepwise) and its *)
(* projections.  P[0] is None; P[k] projects onto the span of the first k   *)
(* selected columns, taken as they were when the selector picked them.     *)
(***************************************************************************)
\* forward_stepwise(X, Y)
NewSelector == [advances |-> 0, variables |-> << >>, cols |-> << >>]

\* FS.next(): one more variable, any column not selected yet
SelectorNext(fs, Xa, j) ==
    [advances |-> fs.advances + 1,
     variables |-> Append(fs.variables, j),
     cols |-> Append(fs.cols, Xa[j])]

IntDot(u, w) == SeqSum([k \in DOMAIN u |-> u[k] * w[k]])

IsZero(u) == \A k \in DOMAIN u : u[k] = 0

\* w - (u.w / u.u) u, up to the factor u.u
ResidualStep(w, u) == [k \in DOMAIN w |-> IntDot(u, u) * w[k] - IntDot(u, w) * u[k]]

Reduced(u) == IF IsZero(u) THEN u ELSE [k \in DOMAIN u |-> u[k] \div SeqGcd(u)]

\* an orthogonal basis of the span of the first k selected columns (Gram-Schmidt
\* on their directions; a column inside the span of the earlier ones adds nothing)
RECURSIVE OrthoBasis(_, _)
OrthoBasis(cols, k) ==
    IF k = 0 THEN << >>
    ELSE LET B == OrthoBasis(cols, k - 1)
             RECURSIVE Against(_, _)
             Against(w, m) == IF m > Len(B) THEN w
                              ELSE Against(Reduced(ResidualStep(w, B[m])), m + 1)
             u == Against(cols[k].v, 1)
         IN  IF IsZero(u) THEN B ELSE Append(B, u)

\* c - P(c) for the projection P onto the span of basis B
RECURSIVE ResidualAgainst(_, _, _)
ResidualAgainst(c, B, m) ==
    IF m > Len(B) THEN c
    ELSE LET u == B[m]
         IN  ResidualAgainst(Normal(ResidualStep(c.v, u), c.q * IntDot(u, u) * IntDot(u, u)),
                             B, m + 1)

\* c - FS.P[k](c); NaN throughout when a selected column holds NaN
Residual(fs, k, c) ==
    IF c.nan \/ \E m \in 1..k : fs.cols[m].nan THEN NaNVec(Len(c.v))
    ELSE ResidualAgainst(c, OrthoBasis(fs.cols, k), 1)

(***************************************************************************)
(* forward_step, lines 178-264.                                            *)
(***************************************************************************)
\* RX -= RX.mean(0)[None,:], one column
Center(c) ==
    IF c.nan THEN c
    ELSE LET n == Len(c.v)
             S == SeqSum(c.v)
         IN  Normal([k \in DOMAIN c.v |-> n * c.v[k] - S], c.q * n * n)

\* RX /= RX.std(0)[None,:], one column: 0/0 is NaN
DivideByStd(c) ==
    IF c.nan THEN c
    ELSE LET n   == Len(c.v)
             S   == SeqSum(c.v)
             var == n * IntDot(c.v, c.v) - S * S
         IN  IF var = 0 THEN NaNVec(n)
             ELSE Normal([k \in DOMAIN c.v |-> n * c.v[k]], var)

Standardize(M) == [j \in DOMAIN M |-> DivideByStd(Center(M[j]))]

\* n, p = X.shape; FS = forward_stepwise(X, Y); covtest_P = []; reduced_P = []
FwdStart ==
    /\ pc = "idle"
    /\ FS' = NewSelector
    /\ covtest_P' = << >> /\ reduced_P' = << >> /\ i' = 0
    /\ pc' = "for"
    /\ UNCHANGED <<X, Y, X0, sigma, exact, covArg, ndraw, burnin, nstep, heap,
                   calls, samplerCalls, err, loc>>

\* an iteration that enters its body without FS.next(), for comparison
FwdSkipAdvance ==
    /\ pc = "for" /\ i < nstep
    /\ pc' = "readP"
    /\ UNCHANGED <<X, Y, X0, sigma, exact, covArg, ndraw, burnin, nstep, heap,
                   calls, samplerCalls, err, i, covtest_P, reduced_P, FS, loc>>

\* for i in range(nstep): FS.next()
FwdAdvance ==
    /\ pc = "for" /\ i < nstep
    /\ \E j \in DOMAIN X :
           /\ \A m \in DOMAIN FS.variables : FS.variables[m] # j
           /\ FS' = SelectorNext(FS, X, j)
    /\ pc' = "readP"
    /\ UNCHANGED <<X, Y, X0, sigma, exact, covArg, ndraw, burnin, nstep, heap,
                   calls, samplerCalls, err, i, covtest_P, reduced_P, loc>>

\* if FS.P[i] is not None: RX = X - FS.P[i](X); RY = Y - FS.P[i](Y);
\*     covariance = np.identity(n) - np.dot(FS.P[i].U, FS.P[i].U.T)
\* else: RX = X; RY = Y; covariance = None         (RX is then the array X itself)
FwdResidualize ==
    /\ pc = "readP"
    /\ IF i > 0
       THEN /\ loc' = [NoLoc EXCEPT
                          !.RX = [j \in DOMAIN X |-> Residual(FS, i, X[j])],
                          !.RY = Residual(FS, i, Y),
                          !.RXisX = FALSE,
                          !.covariance = <<Len(heap) + 1>>]
            /\ heap' = Append(heap, [scale |-> 1,
                                     base |-> [kind |-> "residual",
                                               sel |-> SubSeq(FS.variables, 1, i)]])
       ELSE /\ loc' = [NoLoc EXCEPT !.RX = X, !.RY = Y, !.RXisX = TRUE,
                                    !.covariance = None]
            /\ heap' = heap
    /\ pc' = "standardize"
    /\ UNCHANGED <<X, Y, X0, sigma, exact, covArg, ndraw, burnin, nstep,
                   calls, samplerCalls, err, i, covtest_P, reduced_P, FS>>

\* RX -= RX.mean(0)[None,:]; RX /= RX.std(0)[None,:]      (both in place)
FwdStandardize ==
    /\ pc = "standardize"
    /\ loc' = [loc EXCEPT !.RX = Standardize(loc.RX)]
    /\ X' = IF loc.RXisX THEN Standardize(loc.RX) ELSE X
    /\ pc' = "covtest"
    /\ UNCHANGED <<Y, X0, sigma, exact, covArg, ndraw, burnin, nstep, heap,
                   calls, samplerCalls, err, i, covtest_P, reduced_P, FS>>

\* con, pval, idx, sign = covtest(RX, RY, sigma=sigma, covariance=covariance,
\*                                exact=exact); covtest_P.append(pval)
FwdCovtest ==
    /\ pc = "covtest"
    /\ LET r == Covtest(loc.RX, loc.RY, sigma, exact, loc.covariance, heap)
       IN  /\ heap' = r.heap
           /\ IF r.raised
              THEN /\ err' = "TypeError" /\ pc' = "raised"
                   /\ UNCHANGED <<loc, covtest_P>>
              ELSE /\ loc' = [loc EXCEPT !.con = r.con, !.idx = r.idx, !.sign = r.sign]
                   /\ covtest_P' = Append(covtest_P, r.pvalue)
                   /\ err' = err /\ pc' = "reduced"
    /\ UNCHANGED <<X, Y, X0, sigma, exact, covArg, ndraw, burnin, nstep,
                   calls, samplerCalls, i, reduced_P, FS>>

\* eta = RX[:,idx] * sign; Acon = constraints(FS.A, np.zeros(FS.A.shape[0]))
\* if i > 0: Acon = Acon.conditional(U, Uy)
\* Acon.covariance *= sigma**2
FwdReduced ==
    /\ pc = "reduced"
    /\ LET made == Constraints([kind |-> "FS.A", steps |-> FS.advances,
                                conditional |-> i > 0], << >>, None, heap)
       IN  IF sigma = None
           THEN /\ heap' = made.heap /\ err' = "TypeError" /\ pc' = "raised"
                /\ loc' = loc
           ELSE /\ heap' = ScaleCovariance(made.heap, made.con.covariance, sigma[1])
                /\ loc' = [loc EXCEPT !.Acon = made.con]
                /\ err' = err /\ pc' = "simulate"
    /\ UNCHANGED <<X, Y, X0, sigma, exact, covArg, ndraw, burnin, nstep,
                   calls, samplerCalls, i, covtest_P, reduced_P, FS>>

\* an iteration that ends without appending the Monte-Carlo p-value, for comparison
FwdSimulateNoAppend ==
    /\ pc = "simulate"
    /\ samplerCalls' = Append(samplerCalls,
           SamplerRun("simulate_from_constraints", loc.Acon, Y,
                      Direction(loc.RX, loc.idx, loc.sign), ndraw, burnin, TRUE))
    /\ i' = i + 1 /\ loc' = NoLoc /\ heap' = << >> /\ pc' = "for"
    /\ UNCHANGED <<X, Y, X0, sigma, exact, covArg, ndraw, burnin, nstep,
                   calls, err, covtest_P, reduced_P, FS>>

\* Z = simulate_from_constraints(Acon, Y, ndraw=ndraw, burnin=burnin)
\* observed = (eta * Y).sum(); reduced_pval = (np.dot(Z, eta) >= observed).mean()
\* reduced_P.append(reduced_pval)
\* the end of the iteration: its arrays are dropped with the names bound to them
FwdSimulate ==
    /\ pc = "simulate"
    /\ LET eta == Direction(loc.RX, loc.idx, loc.sign)
           run == SamplerRun("simulate_from_constraints", loc.Acon, Y, eta,
                             ndraw, burnin, TRUE)
       IN  /\ samplerCalls' = Append(samplerCalls, run)
           /\ reduced_P' = Append(reduced_P, Pvalue("simulate", loc.Acon, eta, Y))
    /\ i' = i + 1 /\ loc' = NoLoc /\ heap' = << >> /\ pc' = "for"
    /\ UNCHANGED <<X, Y, X0, sigma, exact, covArg, ndraw, burnin, nstep,
                   calls, err, covtest_P, FS>>

\* return covtest_P, reduced_P
FwdReturn ==
    /\ pc = "for" /\ i >= nstep
    /\ pc' = "done"
    /\ UNCHANGED <<X, Y, X0, sigma, exact, covArg, ndraw, burnin, nstep, heap,
                   calls, samplerCalls, err, i, covtest_P, reduced_P, FS, loc>>

FwdColumns == {IntVec(<<1, 1, 1>>), IntVec(<<1, 0, 0>>), IntVec(<<0, 1, 0>>)}

FwdDesigns == UNION {[1..p -> FwdColumns] : p \in 1..MaxP}

FwdResponses == {IntVec(<<1, 0, -1>>), IntVec(<<0, 2, 1>>)}

Min(a, b) == IF a < b THEN a ELSE b

InitForward ==
    /\ X \in FwdDesigns /\ Y \in FwdResponses /\ X0 = X
    /\ sigma \in {None, <<1>>, <<MaxSigma>>}
    /\ exact \in BOOLEAN
    /\ covArg = None /\ heap = << >>
    /\ ndraw = 5000 /\ burnin = 1000
    /\ nstep \in 0..Min(MaxStep, Len(X))
    /\ pc = "idle" /\ calls = << >> /\ samplerCalls = << >> /\ err = ""
    /\ i = 0 /\ covtest_P = << >> /\ reduced_P = << >> /\ FS = NoFS /\ loc = NoLoc

NextForward ==
    \/ FwdStart \/ FwdAdvance \/ FwdResidualize \/ FwdStandardize
    \/ FwdCovtest \/ FwdReduced \/ FwdSimulate \/ FwdReturn

SpecForward == InitForward /\ [][NextForward]_vars

(***************************************************************************)
(* Claims about the selection event.                                       *)
(***************************************************************************)
\* A z <= 0, row by row
Satisfies(con, z) ==
    \A k \in DOMAIN con.linear_part : LeqZero(RowDot(con.linear_part[k], z))

\* A z < 0, row by row
StrictlySatisfies(con, z) ==
    \A k \in DOMAIN con.linear_part : LtZero(RowDot(con.linear_part[k], z))

SameSelection(c, d) == c.idx = d.idx /\ c.sign = d.sign

IsResponseCall == Len(calls) = 2 /\ calls[2].tag = "response"

\* C1 as claimed: a response z satisfies every row of the constraint built for
\* (X, Y) exactly when the selection rule applied to (X, z) gives the (idx, sign)
\* returned for (X, Y)
C1_RegionIsSelectionEvent ==
    IsResponseCall =>
        (Satisfies(calls[1].con, calls[2].Y) <=> SameSelection(calls[1], calls[2]))

\* C1 amended: a response on which the rule selects the same (idx, sign) satisfies
\* every row, and a response that satisfies every row strictly has the same
\* (idx, sign) selected
C1_RegionContainsEventAndInterior ==
    IsResponseCall =>
        /\ SameSelection(calls[1], calls[2]) => Satisfies(calls[1].con, calls[2].Y)
        /\ StrictlySatisfies(calls[1].con, calls[2].Y) => SameSelection(calls[1], calls[2])

\* a response other than Y, strictly inside the region of a design with a
\* competing column
C1_Witness ==
    /\ IsResponseCall
    /\ Len(X) >= 2
    /\ calls[2].Y # Y
    /\ StrictlySatisfies(calls[1].con, calls[2].Y)
    /\ SameSelection(calls[1], calls[2])

IsPermutedCall == Len(calls) = 2 /\ calls[2].tag = "permuted"

\* exactly one column attains the maximal |X_j . Y|
UniqueMaximiser(Z) ==
    \E m \in DOMAIN Z : \A j \in DOMAIN Z \ {m} : NpLess(Fabs(Z)[j], Fabs(Z)[m])

\* C9 as claimed: permuting the columns other than idx leaves idx and sign as
\* they were, ties included
C9_PermutationInvariant ==
    IsPermutedCall => SameSelection(calls[1], calls[2])

\* C9 amended: the same, when one column alone attains the maximal |X_j . Y|
C9_PermutationInvariantUniqueMax ==
    (IsPermutedCall /\ UniqueMaximiser(Correlations(X, Y)))
        => SameSelection(calls[1], calls[2])

\* a permutation that moves columns, on a design with a single maximiser
C9_Witness ==
    /\ IsPermutedCall
    /\ UniqueMaximiser(Correlations(X, Y))
    /\ calls[2].X # X
    /\ SameSelection(calls[1], calls[2])

\* C2, the direct call: covtest does not raise, the constraint has 2(p-1)+1 rows
\* with offset 0, and the observed Y satisfies every row
C2_DirectCall ==
    (Len(calls) >= 1) =>
        /\ ~calls[1].raised
        /\ Len(calls[1].con.linear_part) = 2 * (Len(X) - 1) + 1
        /\ calls[1].con.offset = Zeros(2 * (Len(X) - 1) + 1)
        /\ Satisfies(calls[1].con, Y)

(***************************************************************************)
(* Claims about side effects and about reduced_covtest.                    *)
(***************************************************************************)
\* C6: covtest leaves X, Y and the caller's covariance array as they were, and
\* a second call with the same arguments returns a constraint with the
\* covariance the first call returned
C6_NoSideEffects ==
    /\ X = X0
    /\ (covArg # None /\ Len(calls) >= 1) =>
           heap[covArg[1]] = [scale |-> 1, base |-> CallerMatrix]
    /\ Len(calls) = 2 => calls[2].cov_value = calls[1].cov_value

\* C3: reduced_covtest returns the idx, the sign and the constraint (linear
\* part, offset, covariance) that covtest(X, Y, sigma', covariance) returns, with
\* sigma' = sigma when sigma is given and 1 when it is not; the sampler is given
\* the direction sign * X_idx, and sigma_known exactly when sigma was supplied
C3_ReducedSameEvent ==
    (pc = "done" /\ calls[1].tag = "reduced") =>
        LET sigma1 == IF sigma = None THEN <<1>> ELSE sigma
            want   == Covtest(X, Y, sigma1, TRUE, covArg, HeapAtCall)
        IN  /\ calls[1].idx = want.idx
            /\ calls[1].sign = want.sign
            /\ calls[1].con.linear_part = want.con.linear_part
            /\ calls[1].con.offset = want.con.offset
            /\ calls[1].cov_value = want.heap[want.con.covariance]
            /\ Len(samplerCalls) = 1
            /\ samplerCalls[1].direction = ScaleVec(want.sign, X[want.idx])
            /\ samplerCalls[1].sigma_known = (sigma # None)

\* reduced_covtest has returned for a sigma other than 1, a supplied covariance,
\* a competing column and a negative sign
C3_Witness ==
    /\ pc = "done" /\ calls[1].tag = "reduced"
    /\ sigma = <<2>> /\ covArg # None /\ Len(X) >= 2
    /\ calls[1].sign = IntScalar(-1)
    /\ calls[1].cov_value.scale = 4

\* C7: with ndraw <= 0 or burnin < 0 the call ends in an error and the sampler
\* is never invoked
C7_FailFast ==
    (ndraw <= 0 \/ burnin < 0) =>
        /\ samplerCalls = << >>
        /\ pc = "done" => err # ""

(***************************************************************************)
(* Claims about forward_step.                                              *)
(***************************************************************************)
InIteration == pc \in {"readP", "standardize", "covtest", "reduced", "simulate"}

\* C2, inside forward_step: when sigma is supplied no call raises, and at every
\* iteration the constraint covtest built for (RX, RY) has 2(p-1)+1 rows, every
\* one satisfied by RY
C2_ObservedInside ==
    /\ sigma # None => err = ""
    /\ (pc = "reduced" /\ sigma # None) =>
           /\ Len(loc.con.linear_part) = 2 * (Len(X) - 1) + 1
           /\ Satisfies(loc.con, loc.RY)

\* C4: the two lists grow in lockstep, one entry each per iteration: both have
\* length i after i completed iterations, and length nstep when forward_step
\* returns, which it does after nstep iterations and no sooner
C4_LengthsLockstep ==
    /\ pc = "for" => Len(covtest_P) = i /\ Len(reduced_P) = i
    /\ pc = "done" => i = nstep /\ Len(covtest_P) = nstep /\ Len(reduced_P) = nstep
    /\ InIteration => i < nstep /\ Len(reduced_P) = i /\ Len(covtest_P) \in {i, i + 1}

\* forward_step has returned two lists of two p-values
C4_Witness ==
    /\ pc = "done" /\ nstep = 2
    /\ Len(covtest_P) = 2 /\ Len(reduced_P) = 2

\* C5: forward_step leaves the caller's X as it was passed in, so the matrix
\* read at every step is that X
C5_InputsUnchanged == X = X0

\* C8: with sigma omitted forward_step raises nothing
C8_SigmaOptional == sigma = None => err = "" /\ pc # "raised"

\* C10 as claimed: the selector is advanced last in the iteration, so it has
\* been advanced i times when P_i is read, and nstep times when the run returns
C10_AdvancedLast ==
    /\ InIteration => FS.advances = i
    /\ pc = "done" => FS.advances = nstep

\* C10 amended: the selector is advanced first in the iteration, before P_i is
\* read: it has been advanced i + 1 times when P_i is read and until the two
\* p-values of iteration i are appended, and nstep times when the run returns
C10_AdvancedFirst ==
    /\ InIteration => FS.advances = i + 1
    /\ pc = "for" => FS.advances = i /\ Len(covtest_P) = i /\ Len(reduced_P) = i
    /\ pc = "done" => FS.advances = nstep

\* P_1 is about to be read, after two advances
C10_Witness == pc = "readP" /\ i = 1 /\ FS.advances = 2 /\ Len(reduced_P) = 1

====
